---- MODULE Spec2Model ----
(***************************************************************************)
(* Model of the two faucet reporting scripts of BitTipBot:                 *)
(*   faucet_stats.py      reads the local SQLite transactions store        *)
(*   get_faucet_stats.py  polls the LNbits usermanager HTTP API            *)
(* Each script is a run-to-completion pipeline reader -> aggregator ->     *)
(* reporter.  A run is one behaviour; the variable script says which of    *)
(* the two scripts the run executes, or that it is a single call of        *)
(* get_user_info_from_sqlite, the reader of faucet_stats.py that neither   *)
(* main calls ("lookup").  Python strings that the code takes              *)
(* apart (memo, type, wallet name) are tuples of one-character strings;    *)
(* a Python dict is the tuple of its <<key, value>> items in insertion     *)
(* order.                                                                  *)
(***************************************************************************)
EXTENDS Integers, Sequences, FiniteSets, TLC

VARIABLES
    script,           \* "local" (faucet_stats.py), "remote" (get_faucet_stats.py) or "lookup"
    pc,               \* position of the run
    dbState,          \* local: condition of the database file the reader uses
    table,            \* local: rows of the table the reader queries
    conns,            \* local: database connections currently open
    opened,           \* local: database connections opened so far
    pending,          \* local: value the reader is about to return (try/except body done)
    transactions,     \* local: list returned by get_transactions_from_sqlite
    user_id,          \* lookup: argument of get_user_info_from_sqlite
    user_info,        \* lookup: its result, <<>> for None and <<row>> for a dict
    users,            \* remote: list returned by get_users
    wallets,          \* remote: list returned by get_user_wallets for the current user
    uidx,             \* remote: index of the current user in main's loop
    widx,             \* remote: index of the current wallet in main's inner loop
    all_wallets,      \* remote: dict wallet_id -> wallet
    all_transactions, \* remote: dict wallet_id -> list of payments
    fetched,          \* remote: number of list items the API has returned so far
    idx,              \* aggregator: index of the next record (local) / wallet item (remote)
    pidx,             \* remote aggregator: index of the next payment of the wallet
    distributions,    \* dict username -> total amount
    receipts,         \* dict username -> total amount
    balance,          \* local: dict username -> net amount
    lastCall,         \* the last source-reader call and how it ended
    out               \* what the run has printed

vars == <<script, pc, dbState, table, conns, opened, pending, transactions,
          user_id, user_info,
          users, wallets, uidx, widx, all_wallets, all_transactions, fetched,
          idx, pidx, distributions, receipts, balance, lastCall, out>>

----------------------------------------------------------------------------
(* Bounds of the model *)

MaxRows == 3
MaxItems == 5

----------------------------------------------------------------------------
(* Python strings as tuples of characters *)

S_faucet == <<"f", "a", "u", "c", "e", "t">>
S_Faucet == <<"F", "a", "u", "c", "e", "t">>
S_tip == <<"t", "i", "p">>
S_openAt == <<"(", "@">>
S_close == <<")">>

UpperAlpha == <<"A", "B", "C", "D", "E", "F", "G", "H", "I", "J", "K", "L", "M",
                "N", "O", "P", "Q", "R", "S", "T", "U", "V", "W", "X", "Y", "Z">>
LowerAlpha == <<"a", "b", "c", "d", "e", "f", "g", "h", "i", "j", "k", "l", "m",
                "n", "o", "p", "q", "r", "s", "t", "u", "v", "w", "x", "y", "z">>

\* str.lower()
Lower(s) ==
    [i \in 1..Len(s) |->
        IF \E j \in 1..Len(UpperAlpha) : UpperAlpha[j] = s[i]
        THEN LowerAlpha[CHOOSE j \in 1..Len(UpperAlpha) : UpperAlpha[j] = s[i]]
        ELSE s[i]]

\* positions at which sub occurs in s
Occurrences(s, sub) ==
    {i \in 1..(Len(s) - Len(sub) + 1) : SubSeq(s, i, i + Len(sub) - 1) = sub}

\* sub in s
Contains(s, sub) == Occurrences(s, sub) # {}

Min(S) == CHOOSE x \in S : \A y \in S : x <= y

\* str.split(sep)
RECURSIVE Split(_, _)
Split(s, sep) ==
    IF Occurrences(s, sep) = {} THEN <<s>>
    ELSE LET i == Min(Occurrences(s, sep))
         IN <<SubSeq(s, 1, i - 1)>> \o Split(SubSeq(s, i + Len(sep), Len(s)), sep)

\* str.strip(chars)
RECURSIVE Strip(_, _)
Strip(s, chars) ==
    IF s = <<>> THEN s
    ELSE IF \E j \in 1..Len(chars) : chars[j] = s[1] THEN Strip(Tail(s), chars)
    ELSE IF \E j \in 1..Len(chars) : chars[j] = s[Len(s)]
         THEN Strip(SubSeq(s, 1, Len(s) - 1), chars)
    ELSE s

----------------------------------------------------------------------------
(* Python dicts: tuples of <<key, value>> items in insertion order *)

Keys(d) == {d[i][1] : i \in 1..Len(d)}

HasKey(d, k) == \E i \in 1..Len(d) : d[i][1] = k

\* d.get(k, default)
GetOr(d, k, default) ==
    IF HasKey(d, k) THEN d[CHOOSE i \in 1..Len(d) : d[i][1] = k][2] ELSE default

\* d[k] = v : an existing key keeps its position
SetItem(d, k, v) ==
    IF HasKey(d, k)
    THEN [i \in 1..Len(d) |-> IF d[i][1] = k THEN <<k, v>> ELSE d[i]]
    ELSE Append(d, <<k, v>>)

\* defaultdict(int): d[k] += a
AddTo(d, k, a) == SetItem(d, k, GetOr(d, k, 0) + a)

RECURSIVE SumValues(_)
SumValues(d) == IF d = <<>> THEN 0 ELSE d[1][2] + SumValues(Tail(d))

\* all tuples over S of length at most n
SeqsUpTo(S, n) == UNION {[1..k -> S] : k \in 0..n}

----------------------------------------------------------------------------
(* Time *)

Timedelta(days) == days * 86400

\* datetime.now() of the run, seconds since the epoch
Now == Timedelta(20000)

----------------------------------------------------------------------------
(* What a run prints and what a reader call leaves behind *)

Msg(text) == [kind |-> "msg", text |-> text]

Report(lines) == [kind |-> "report", lines |-> lines]

Header(title) == [kind |-> "header", title |-> title]

Entry(username, sats) == [kind |-> "entry", username |-> username, sats |-> sats]

\* a source-reader call: which reader, the access failure it met ("none" when
\* the access succeeded), whether it raised to its caller, and what it returned
Call(fn, failure, raised, ret) ==
    [fn |-> fn, failure |-> failure, raised |-> raised, ret |-> ret]

NoCall == Call("none", "none", FALSE, <<>>)

----------------------------------------------------------------------------
(* Reporter: format_stats of both scripts *)

\* variant of InsertDesc: the sort without reverse=True
InsertAsc(x, s) ==
    LET n == Cardinality({i \in 1..Len(s) : s[i][2] <= x[2]})
    IN SubSeq(s, 1, n) \o <<x>> \o SubSeq(s, n + 1, Len(s))

\* sorted(stats.items(), key=lambda x: x[1], reverse=True): a stable sort, so
\* items of equal value keep their dict order
InsertDesc(x, s) ==
    LET n == Cardinality({i \in 1..Len(s) : s[i][2] >= x[2]})
    IN SubSeq(s, 1, n) \o <<x>> \o SubSeq(s, n + 1, Len(s))

RECURSIVE SortedDesc(_)
SortedDesc(items) ==
    IF items = <<>> THEN <<>>
    ELSE InsertDesc(items[Len(items)], SortedDesc(SubSeq(items, 1, Len(items) - 1)))

\* f"{amount / d:,.0f}": the quotient rounded to an integer, ties to even
RoundedQuotient(amount, d) ==
    LET q == amount \div d
        r == amount % d
    IN IF 2 * r < d THEN q
       ELSE IF 2 * r > d THEN q + 1
       ELSE IF q % 2 = 0 THEN q ELSE q + 1

\* faucet_stats.py: sats = amount
format_stats_local(stats, title) ==
    LET items == SortedDesc(stats)
    IN <<Header(title)>> \o [i \in 1..Len(items) |-> Entry(items[i][1], items[i][2])]

\* get_faucet_stats.py: sats = amount / 1000
format_stats_remote(stats, title) ==
    LET items == SortedDesc(stats)
    IN <<Header(title)>> \o
       [i \in 1..Len(items) |-> Entry(items[i][1], RoundedQuotient(items[i][2], 1000))]

----------------------------------------------------------------------------
(* faucet_stats.py : the local store *)

Row(sender, recipient, amount, time, type, success) ==
    [sender |-> sender, recipient |-> recipient, amount |-> amount,
     time |-> time, type |-> type, success |-> success]

Recent == Now - Timedelta(1)
Stale == Now - Timedelta(8)

\* rows the transactions table may hold
TxPool ==
    { Row("A", "B", 100, Recent, S_faucet, 1),
      Row("B", "C", 50, Recent, S_faucet, 1),
      Row("C", "A", 50, Recent, S_faucet, 1),
      Row("A", "A", 100, Recent, S_faucet, 1),
      Row("C", "B", 100, Recent, S_faucet, 0),
      Row("B", "A", 50, Recent, S_tip, 1),
      Row("A", "C", 50, Stale, S_faucet, 1),
      Row("B", "B", 100, Recent, S_Faucet, 1) }

DbStates == {"ok", "missing", "unopenable", "badquery"}

\* WHERE type = 'faucet' AND success = 1 AND time >= datetime(?, 'unixepoch')
\* with ? = now - 7 days
\* (type is compared case-sensitively; the time column and the cutoff are
\* compared as points in time, both given here in seconds since the epoch)
SqlWhere(row) ==
    /\ row.type = S_faucet
    /\ row.success = 1
    /\ row.time >= Now - Timedelta(7)

Totals(d, r, b) == [distributions |-> d, receipts |-> r, balance |-> b]

\* variant of AnalyzeTx: the receipts update is missing
AnalyzeTx_NoReceipt(st, tx) ==
    IF tx.success = 0 THEN st
    ELSE IF Contains(Lower(tx.type), S_faucet)
         THEN Totals(AddTo(st.distributions, tx.sender, tx.amount),
                     st.receipts,
                     AddTo(AddTo(st.balance, tx.sender, tx.amount),
                           tx.recipient, 0 - tx.amount))
         ELSE st

\* variant of AnalyzeTx: the recipient's balance is credited instead of debited
AnalyzeTx_BalanceSign(st, tx) ==
    IF tx.success = 0 THEN st
    ELSE IF Contains(Lower(tx.type), S_faucet)
         THEN Totals(AddTo(st.distributions, tx.sender, tx.amount),
                     AddTo(st.receipts, tx.recipient, tx.amount),
                     AddTo(AddTo(st.balance, tx.sender, tx.amount),
                           tx.recipient, tx.amount))
         ELSE st

\* variant of AnalyzeTx: the sender's total is assigned (=) instead of accumulated (+=)
AnalyzeTx_Assign(st, tx) ==
    IF tx.success = 0 THEN st
    ELSE IF Contains(Lower(tx.type), S_faucet)
         THEN Totals(SetItem(st.distributions, tx.sender, tx.amount),
                     AddTo(st.receipts, tx.recipient, tx.amount),
                     AddTo(AddTo(st.balance, tx.sender, tx.amount),
                           tx.recipient, 0 - tx.amount))
         ELSE st

\* body of the aggregator's loop for one record
AnalyzeTx(st, tx) ==
    IF tx.success = 0 THEN st
    ELSE IF Contains(Lower(tx.type), S_faucet)
         THEN Totals(AddTo(st.distributions, tx.sender, tx.amount),
                     AddTo(st.receipts, tx.recipient, tx.amount),
                     AddTo(AddTo(st.balance, tx.sender, tx.amount),
                           tx.recipient, 0 - tx.amount))
         ELSE st

\* the whole loop over a list of records
RECURSIVE AnalyzeAll(_)
AnalyzeAll(txs) ==
    IF txs = <<>> THEN Totals(<<>>, <<>>, <<>>)
    ELSE AnalyzeTx(AnalyzeAll(SubSeq(txs, 1, Len(txs) - 1)), txs[Len(txs)])

LookupIdle == UNCHANGED <<user_id, user_info>>

RemoteIdle ==
    /\ UNCHANGED <<users, wallets, uidx, widx, all_wallets, all_transactions, fetched, pidx>>
    /\ LookupIdle

LocalIdle ==
    /\ UNCHANGED <<dbState, table, conns, opened, pending, transactions, balance>>
    /\ LookupIdle

LocalUnused == LocalIdle

\* main: the first print, then analyze_faucet_transactions calls the reader
LocalMain ==
    /\ script = "local" /\ pc = "main"
    /\ out' = Append(out, Msg("Fetching faucet statistics..."))
    /\ pc' = "exists"
    /\ UNCHANGED <<script, idx, distributions, receipts, lastCall>>
    /\ LocalIdle /\ RemoteIdle

\* get_transactions_from_sqlite: the os.path.exists test
ReaderExists ==
    /\ script = "local" /\ pc = "exists"
    /\ IF dbState = "missing"
       THEN /\ out' = Append(out, Msg("Error: Transactions database not found at data/transactions.db"))
            /\ transactions' = <<>>
            /\ lastCall' = Call("get_transactions_from_sqlite", "missing", FALSE, <<>>)
            /\ pc' = "analyze"
       ELSE /\ pc' = "connect"
            /\ UNCHANGED <<out, transactions, lastCall>>
    /\ UNCHANGED <<script, dbState, table, conns, opened, pending, balance,
                   idx, distributions, receipts>>
    /\ RemoteIdle

\* sqlite3.connect, outside the try block: a file that cannot be opened raises
ReaderConnect ==
    /\ script = "local" /\ pc = "connect"
    /\ IF dbState = "unopenable"
       THEN /\ lastCall' = Call("get_transactions_from_sqlite", "unopenable", TRUE, <<>>)
            /\ pc' = "crashed"
            /\ UNCHANGED <<conns, opened>>
       ELSE /\ conns' = conns + 1
            /\ opened' = opened + 1
            /\ pc' = "query"
            /\ UNCHANGED lastCall
    /\ UNCHANGED <<script, dbState, table, pending, transactions, balance,
                   idx, distributions, receipts, out>>
    /\ RemoteIdle

\* the try block: execute and fetchall, or except sqlite3.Error
ReaderQuery ==
    /\ script = "local" /\ pc = "query"
    /\ IF dbState = "badquery"
       THEN /\ out' = Append(out, Msg("Error querying SQLite database"))
            /\ pending' = <<>>
       ELSE /\ pending' = SelectSeq(table, SqlWhere)
            /\ UNCHANGED out
    /\ pc' = "finally"
    /\ UNCHANGED <<script, dbState, table, conns, opened, transactions, balance,
                   idx, distributions, receipts, lastCall>>
    /\ RemoteIdle

\* variant of ReaderFinally: the connection is closed on the successful path only
ReaderFinally_Leak ==
    /\ script = "local" /\ pc = "finally"
    /\ conns' = IF dbState = "badquery" THEN conns ELSE conns - 1
    /\ transactions' = pending
    /\ lastCall' = Call("get_transactions_from_sqlite",
                        IF dbState = "badquery" THEN "badquery" ELSE "none",
                        FALSE, pending)
    /\ pc' = "analyze"
    /\ UNCHANGED <<script, dbState, table, opened, pending, balance,
                   idx, distributions, receipts, out>>
    /\ RemoteIdle

\* finally: conn.close(), then the reader returns
ReaderFinally ==
    /\ script = "local" /\ pc = "finally"
    /\ conns' = conns - 1
    /\ transactions' = pending
    /\ lastCall' = Call("get_transactions_from_sqlite",
                        IF dbState = "badquery" THEN "badquery" ELSE "none",
                        FALSE, pending)
    /\ pc' = "analyze"
    /\ UNCHANGED <<script, dbState, table, opened, pending, balance,
                   idx, distributions, receipts, out>>
    /\ RemoteIdle

\* analyze_faucet_transactions: one iteration of the loop
LocalAnalyzeStep ==
    /\ script = "local" /\ pc = "analyze"
    /\ idx <= Len(transactions)
    /\ LET st == AnalyzeTx(Totals(distributions, receipts, balance), transactions[idx])
       IN /\ distributions' = st.distributions
          /\ receipts' = st.receipts
          /\ balance' = st.balance
    /\ idx' = idx + 1
    /\ UNCHANGED <<script, pc, dbState, table, conns, opened, pending, transactions,
                   lastCall, out>>
    /\ RemoteIdle

\* analyze_faucet_transactions returns the three dicts
LocalAnalyzeReturn ==
    /\ script = "local" /\ pc = "analyze"
    /\ idx > Len(transactions)
    /\ pc' = "report"
    /\ UNCHANGED <<script, idx, distributions, receipts, lastCall, out>>
    /\ LocalIdle /\ RemoteIdle

T_LocalDistributed == "Total Amount Distributed per User of last 7 days"
T_LocalReceived == "Total Amount Received per User of last 7 days"
T_LocalBalance == "Balance of Faucets per User of last 7 days (negative = lurker)"

\* main: the banner and the three reports
LocalReport ==
    /\ script = "local" /\ pc = "report"
    /\ out' = out \o
              << Msg("Faucet Statistics for the Last 7 Days:"),
                 Msg("--------------------------------------------------"),
                 Report(format_stats_local(distributions, T_LocalDistributed)),
                 Report(format_stats_local(receipts, T_LocalReceived)),
                 Report(format_stats_local(balance, T_LocalBalance)) >>
    /\ pc' = "done"
    /\ UNCHANGED <<script, idx, distributions, receipts, lastCall>>
    /\ LocalIdle /\ RemoteIdle

----------------------------------------------------------------------------
(* faucet_stats.py : get_user_info_from_sqlite *)

UserRow(name, telegram_username, wallet_id) ==
    [name |-> name, telegram_username |-> telegram_username, wallet_id |-> wallet_id,
     wallet_name |-> name, wallet_balance |-> 0]

\* rows the users table may hold
UserPool ==
    { UserRow("A", "alice", "w1"),
      UserRow("B", "A", "w2"),
      UserRow("C", "carol", "w3") }

UserIds == {"A", "carol", "Z"}

\* WHERE name = ? OR telegram_username = ?
UserWhere(row) == row.name = user_id \/ row.telegram_username = user_id

\* fetchone: the first row of the result, or None
FetchOne(rows) == IF rows = <<>> THEN <<>> ELSE <<rows[1]>>

LookupFrame ==
    /\ UNCHANGED <<script, dbState, table, transactions, user_id, balance,
                   idx, distributions, receipts, lastCall>>
    /\ UNCHANGED <<users, wallets, uidx, widx, all_wallets, all_transactions, fetched, pidx>>

\* the os.path.exists test
UserInfoExists ==
    /\ script = "lookup" /\ pc = "exists"
    /\ IF dbState = "missing"
       THEN /\ out' = Append(out, Msg("Error: User database not found at data/bot.db"))
            /\ user_info' = <<>>
            /\ pc' = "done"
       ELSE /\ pc' = "connect"
            /\ UNCHANGED <<out, user_info>>
    /\ UNCHANGED <<conns, opened, pending>>
    /\ LookupFrame

\* sqlite3.connect, outside the try block
UserInfoConnect ==
    /\ script = "lookup" /\ pc = "connect"
    /\ IF dbState = "unopenable"
       THEN /\ pc' = "crashed"
            /\ UNCHANGED <<conns, opened>>
       ELSE /\ conns' = conns + 1
            /\ opened' = opened + 1
            /\ pc' = "query"
    /\ UNCHANGED <<pending, user_info, out>>
    /\ LookupFrame

\* the try block: execute and fetchone, or except sqlite3.Error
UserInfoQuery ==
    /\ script = "lookup" /\ pc = "query"
    /\ IF dbState = "badquery"
       THEN /\ out' = Append(out, Msg("Error querying SQLite database"))
            /\ pending' = <<>>
       ELSE /\ pending' = FetchOne(SelectSeq(table, UserWhere))
            /\ UNCHANGED out
    /\ pc' = "finally"
    /\ UNCHANGED <<conns, opened, user_info>>
    /\ LookupFrame

\* finally: conn.close(), then the reader returns
UserInfoFinally ==
    /\ script = "lookup" /\ pc = "finally"
    /\ conns' = conns - 1
    /\ user_info' = pending
    /\ pc' = "done"
    /\ UNCHANGED <<opened, pending, out>>
    /\ LookupFrame

----------------------------------------------------------------------------
(* get_faucet_stats.py : the remote API *)

Wallet(id, name) == [id |-> id, name |-> name, adminkey |-> id]

\* wallets the usermanager may list; two of them belong to @b
WalletPool ==
    { Wallet("w1", <<"1", " ", "(", "@", "b", ")">>),
      Wallet("w2", <<"2", " ", "(", "@", "b", ")">>),
      Wallet("w3", <<"c">>) }

\* a payment: keys says which of the optional keys memo and out it carries
Payment(keys, memo, time, amount, outFlag) ==
    [keys |-> keys, memo |-> memo, time |-> time, amount |-> amount, out |-> outFlag]

\* payment.get(key, default)
PaymentGet(payment, key, default) ==
    IF key \in payment.keys THEN payment[key] ELSE default

Window == Timedelta(365)

\* payments a wallet may list
PaymentPool ==
    { Payment({"memo", "out"}, S_faucet, Recent, 1000, TRUE),
      Payment({"memo", "out"}, S_Faucet, Recent, 500, FALSE),
      Payment({"out"}, <<>>, Recent, 1000, TRUE),
      Payment({"memo", "out"}, S_faucet, Now - Window - 1, 1000, FALSE),
      Payment({"memo"}, S_faucet, Now - Window, 1500, FALSE),
      Payment({"memo", "out"}, S_tip, Recent, 500, TRUE) }

\* how a requests.get call can end: a response with status 200, a response
\* with another status, or no response at all (requests raises ConnectionError)
HttpOutcomes == {"200", "500", "unreachable"}

UsersBodies == {[i \in 1..n |-> [id |-> i]] : n \in 0..MaxItems}

\* the body that comes with an outcome: only a 200 response carries a list
BodiesFor(outcome, bodies) == IF outcome = "200" THEN bodies ELSE {<<>>}

get_telegram_username(wallet_name) ==
    IF Contains(wallet_name, S_openAt) /\ Contains(wallet_name, S_close)
    THEN Strip(Split(wallet_name, S_openAt)[2], S_close)
    ELSE wallet_name

Pair(d, r) == [distributions |-> d, receipts |-> r]

\* variant of AnalyzePayment: an outgoing payment is added to both dicts
AnalyzePayment_Both(st, username, payment) ==
    IF ~Contains(Lower(PaymentGet(payment, "memo", <<>>)), S_faucet) THEN st
    ELSE IF payment.time < Now - Window THEN st
    ELSE IF PaymentGet(payment, "out", FALSE)
         THEN Pair(AddTo(st.distributions, username, payment.amount),
                   AddTo(st.receipts, username, payment.amount))
         ELSE Pair(st.distributions, AddTo(st.receipts, username, payment.amount))

\* variant of AnalyzePayment: the 365-day test is missing
AnalyzePayment_NoWindow(st, username, payment) ==
    IF ~Contains(Lower(PaymentGet(payment, "memo", <<>>)), S_faucet) THEN st
    ELSE IF PaymentGet(payment, "out", FALSE)
         THEN Pair(AddTo(st.distributions, username, payment.amount), st.receipts)
         ELSE Pair(st.distributions, AddTo(st.receipts, username, payment.amount))

\* body of the aggregator's inner loop for one payment of a wallet of username
AnalyzePayment(st, username, payment) ==
    IF ~Contains(Lower(PaymentGet(payment, "memo", <<>>)), S_faucet) THEN st
    ELSE IF payment.time < Now - Window THEN st
    ELSE IF PaymentGet(payment, "out", FALSE)
         THEN Pair(AddTo(st.distributions, username, payment.amount), st.receipts)
         ELSE Pair(st.distributions, AddTo(st.receipts, username, payment.amount))

RemoteMain ==
    /\ script = "remote" /\ pc = "main"
    /\ out' = Append(out, Msg("Fetching faucet statistics from LNbits..."))
    /\ pc' = "get_users"
    /\ UNCHANGED <<script, idx, distributions, receipts, lastCall>>
    /\ LocalUnused /\ RemoteIdle

\* get_users, called by main
GetUsers ==
    /\ script = "remote" /\ pc = "get_users"
    /\ \E outcome \in HttpOutcomes : \E body \in BodiesFor(outcome, UsersBodies) :
          IF outcome = "unreachable"
          THEN /\ lastCall' = Call("get_users", outcome, TRUE, <<>>)
               /\ pc' = "crashed"
               /\ UNCHANGED <<users, fetched, out>>
          ELSE /\ users' = body
               /\ fetched' = fetched + Len(body)
               /\ lastCall' = Call("get_users",
                                   IF outcome = "200" THEN "none" ELSE outcome,
                                   FALSE, body)
               /\ out' = IF outcome = "200" THEN out
                         ELSE Append(out, Msg("Error getting users"))
               /\ pc' = "check_users"
    /\ UNCHANGED <<script, wallets, uidx, widx, all_wallets, all_transactions,
                   idx, pidx, distributions, receipts>>
    /\ LocalUnused

\* variant of CheckUsers: main goes on with an empty user list
CheckUsers_Continue ==
    /\ script = "remote" /\ pc = "check_users"
    /\ pc' = "get_wallets"
    /\ UNCHANGED <<script, idx, distributions, receipts, lastCall, out>>
    /\ LocalUnused /\ RemoteIdle

\* main: if not users: print and return
CheckUsers ==
    /\ script = "remote" /\ pc = "check_users"
    /\ IF users = <<>>
       THEN /\ out' = Append(out, Msg("No users found!"))
            /\ pc' = "done"
       ELSE /\ pc' = "get_wallets"
            /\ UNCHANGED out
    /\ UNCHANGED <<script, idx, distributions, receipts, lastCall>>
    /\ LocalUnused /\ RemoteIdle

\* get_user_wallets for the current user of main's loop
GetUserWallets ==
    /\ script = "remote" /\ pc = "get_wallets"
    /\ uidx <= Len(users)
    /\ \E outcome \in HttpOutcomes :
       \E body \in BodiesFor(outcome, SeqsUpTo(WalletPool, MaxItems - fetched)) :
          IF outcome = "unreachable"
          THEN /\ lastCall' = Call("get_user_wallets", outcome, TRUE, <<>>)
               /\ pc' = "crashed"
               /\ UNCHANGED <<wallets, widx, fetched, out>>
          ELSE /\ wallets' = body
               /\ widx' = 1
               /\ fetched' = fetched + Len(body)
               /\ lastCall' = Call("get_user_wallets",
                                   IF outcome = "200" THEN "none" ELSE outcome,
                                   FALSE, body)
               /\ out' = IF outcome = "200" THEN out
                         ELSE Append(out, Msg("Error getting wallets for user"))
               /\ pc' = "get_payments"
    /\ UNCHANGED <<script, users, uidx, all_wallets, all_transactions,
                   idx, pidx, distributions, receipts>>
    /\ LocalUnused

\* main's inner loop body: record the wallet, then get_wallet_transactions
GetWalletTransactions ==
    /\ script = "remote" /\ pc = "get_payments"
    /\ widx <= Len(wallets)
    /\ LET wallet == wallets[widx]
       IN /\ all_wallets' = SetItem(all_wallets, wallet.id, wallet)
          /\ \E outcome \in HttpOutcomes :
             \E body \in BodiesFor(outcome, SeqsUpTo(PaymentPool, MaxItems - fetched)) :
                IF outcome = "unreachable"
                THEN /\ lastCall' = Call("get_wallet_transactions", outcome, TRUE, <<>>)
                     /\ pc' = "crashed"
                     /\ UNCHANGED <<all_transactions, widx, fetched, out>>
                ELSE /\ all_transactions' = SetItem(all_transactions, wallet.id, body)
                     /\ widx' = widx + 1
                     /\ fetched' = fetched + Len(body)
                     /\ lastCall' = Call("get_wallet_transactions",
                                         IF outcome = "200" THEN "none" ELSE outcome,
                                         FALSE, body)
                     /\ out' = IF outcome = "200" THEN out
                               ELSE Append(out, Msg("Error getting transactions for wallet"))
                     /\ UNCHANGED pc
    /\ UNCHANGED <<script, users, wallets, uidx, idx, pidx, distributions, receipts>>
    /\ LocalUnused

\* main's outer loop: the wallets of the current user are done
NextUser ==
    /\ script = "remote" /\ pc = "get_payments"
    /\ widx > Len(wallets)
    /\ uidx' = uidx + 1
    /\ pc' = "get_wallets"
    /\ UNCHANGED <<script, users, wallets, widx, all_wallets, all_transactions, fetched,
                   idx, pidx, distributions, receipts, lastCall, out>>
    /\ LocalUnused

\* main: the loops are done, analyze_faucet_transactions is called
FetchDone ==
    /\ script = "remote" /\ pc = "get_wallets"
    /\ uidx > Len(users)
    /\ pc' = "analyze"
    /\ UNCHANGED <<script, idx, distributions, receipts, lastCall, out>>
    /\ LocalUnused /\ RemoteIdle

\* analyze_faucet_transactions: one payment of the current wallet
RemoteAnalyzeStep ==
    /\ script = "remote" /\ pc = "analyze"
    /\ idx <= Len(all_wallets)
    /\ LET wallet == all_wallets[idx][2]
           payments == GetOr(all_transactions, all_wallets[idx][1], <<>>)
       IN /\ pidx <= Len(payments)
          /\ LET st == AnalyzePayment(Pair(distributions, receipts),
                                      get_telegram_username(wallet.name), payments[pidx])
             IN /\ distributions' = st.distributions
                /\ receipts' = st.receipts
    /\ pidx' = pidx + 1
    /\ UNCHANGED <<script, pc, users, wallets, uidx, widx, all_wallets, all_transactions,
                   fetched, idx, lastCall, out>>
    /\ LocalUnused

\* analyze_faucet_transactions: the payments of the current wallet are done
RemoteAnalyzeNextWallet ==
    /\ script = "remote" /\ pc = "analyze"
    /\ idx <= Len(all_wallets)
    /\ pidx > Len(GetOr(all_transactions, all_wallets[idx][1], <<>>))
    /\ idx' = idx + 1
    /\ pidx' = 1
    /\ UNCHANGED <<script, pc, users, wallets, uidx, widx, all_wallets, all_transactions,
                   fetched, distributions, receipts, lastCall, out>>
    /\ LocalUnused

\* analyze_faucet_transactions returns the two dicts
RemoteAnalyzeReturn ==
    /\ script = "remote" /\ pc = "analyze"
    /\ idx > Len(all_wallets)
    /\ pc' = "report"
    /\ UNCHANGED <<script, idx, distributions, receipts, lastCall, out>>
    /\ LocalUnused /\ RemoteIdle

T_RemoteDistributed == "Total Amount Distributed per User"
T_RemoteReceived == "Total Amount Received per User"

\* main: the banner and the two reports
RemoteReport ==
    /\ script = "remote" /\ pc = "report"
    /\ out' = out \o
              << Msg("Faucet Statistics for the Last 12 Months:"),
                 Msg("--------------------------------------------------"),
                 Report(format_stats_remote(distributions, T_RemoteDistributed)),
                 Report(format_stats_remote(receipts, T_RemoteReceived)) >>
    /\ pc' = "done"
    /\ UNCHANGED <<script, idx, distributions, receipts, lastCall>>
    /\ LocalUnused /\ RemoteIdle

----------------------------------------------------------------------------
(* The runs *)

Init ==
    /\ script \in {"local", "remote", "lookup"}
    /\ \/ /\ script = "local"
          /\ pc = "main"
          /\ dbState \in DbStates
          /\ table \in (IF dbState = "ok" THEN SeqsUpTo(TxPool, MaxRows) ELSE {<<>>})
          /\ user_id = "A"
       \/ /\ script = "remote"
          /\ pc = "main"
          /\ dbState = "ok"
          /\ table = <<>>
          /\ user_id = "A"
       \/ /\ script = "lookup"
          /\ pc = "exists"
          /\ dbState \in DbStates
          /\ table \in (IF dbState = "ok" THEN SeqsUpTo(UserPool, MaxRows) ELSE {<<>>})
          /\ user_id \in UserIds
    /\ user_info = <<>>
    /\ conns = 0
    /\ opened = 0
    /\ pending = <<>>
    /\ transactions = <<>>
    /\ users = <<>>
    /\ wallets = <<>>
    /\ uidx = 1
    /\ widx = 1
    /\ all_wallets = <<>>
    /\ all_transactions = <<>>
    /\ fetched = 0
    /\ idx = 1
    /\ pidx = 1
    /\ distributions = <<>>
    /\ receipts = <<>>
    /\ balance = <<>>
    /\ lastCall = NoCall
    /\ out = <<>>

Next ==
    \/ LocalMain
    \/ ReaderExists
    \/ ReaderConnect
    \/ ReaderQuery
    \/ ReaderFinally
    \/ LocalAnalyzeStep
    \/ LocalAnalyzeReturn
    \/ LocalReport
    \/ UserInfoExists
    \/ UserInfoConnect
    \/ UserInfoQuery
    \/ UserInfoFinally
    \/ RemoteMain
    \/ GetUsers
    \/ CheckUsers
    \/ GetUserWallets
    \/ GetWalletTransactions
    \/ NextUser
    \/ FetchDone
    \/ RemoteAnalyzeStep
    \/ RemoteAnalyzeNextWallet
    \/ RemoteAnalyzeReturn
    \/ RemoteReport

Spec == Init /\ [][Next]_vars

----------------------------------------------------------------------------
(* Properties of the aggregators *)

LocalUsers == {"A", "B", "C"}

\* the aggregator of the run has returned
Aggregated == pc \in {"report", "done"}

\* C1 as stated: in every run of either script, after every prefix of the
\* records, the distributed totals and the received totals have the same sum.
C1_Conservation == SumValues(distributions) = SumValues(receipts)

\* C1: in every run of the local-store script, after every prefix of the
\* records and at the end, the sum of the distributed totals equals the sum
\* of the received totals.
C1_ConservationLocal ==
    script = "local" => SumValues(distributions) = SumValues(receipts)

C1_Witness ==
    /\ script = "local" /\ pc = "done"
    /\ Len(transactions) >= 2
    /\ SumValues(distributions) = 150
    /\ SumValues(receipts) = 150

\* C2: once the local aggregator has returned, balance[u] = distributed[u] - received[u]
\* for every user u, an absent key reading as 0, self-transfers included.
C2_NetBalance ==
    (script = "local" /\ Aggregated) =>
        \A u \in LocalUsers \cup Keys(balance) \cup Keys(distributions) \cup Keys(receipts) :
            GetOr(balance, u, 0) = GetOr(distributions, u, 0) - GetOr(receipts, u, 0)

C2_Witness ==
    /\ script = "local" /\ pc = "done"
    /\ \E i \in 1..Len(transactions) : transactions[i].sender = transactions[i].recipient
    /\ \E u \in LocalUsers : GetOr(balance, u, 0) < 0
    /\ \E u \in LocalUsers : GetOr(receipts, u, 0) > 0 /\ GetOr(distributions, u, 0) > 0

\* the record counts: it is a successful faucet-typed record
Qualifies(tx) == tx.success = 1 /\ tx.type = S_faucet

RECURSIVE SumAmounts(_, _)
SumAmounts(I, txs) ==
    IF I = {} THEN 0
    ELSE LET i == CHOOSE j \in I : TRUE
         IN txs[i].amount + SumAmounts(I \ {i}, txs)

RefDistributed(txs, u) ==
    SumAmounts({i \in 1..Len(txs) : Qualifies(txs[i]) /\ txs[i].sender = u}, txs)

RefReceived(txs, u) ==
    SumAmounts({i \in 1..Len(txs) : Qualifies(txs[i]) /\ txs[i].recipient = u}, txs)

Senders(txs) == {txs[i].sender : i \in {j \in 1..Len(txs) : Qualifies(txs[j])}}

Recipients(txs) == {txs[i].recipient : i \in {j \in 1..Len(txs) : Qualifies(txs[j])}}

Orderings(n) ==
    {p \in [1..n -> 1..n] : \A i, j \in 1..n : p[i] = p[j] => i = j}

\* two dicts hold the same keys with the same values
SameDict(d, e) ==
    /\ Keys(d) = Keys(e)
    /\ \A k \in Keys(d) : GetOr(d, k, 0) = GetOr(e, k, 0)

\* C8: when the local aggregator has returned, its three dicts are the reference
\* fold of the records it iterated: distributed[u] is the sum of the amounts the
\* successful faucet-typed records send from u, received[u] the sum they send to
\* u, balance[u] their difference, with a key exactly for the users such a
\* record names; and iterating the records in any other order gives the same dicts.
C8_ReferenceFold ==
    (script = "local" /\ pc = "report") =>
        /\ Keys(distributions) = Senders(transactions)
        /\ Keys(receipts) = Recipients(transactions)
        /\ Keys(balance) = Senders(transactions) \cup Recipients(transactions)
        /\ \A u \in LocalUsers :
              /\ GetOr(distributions, u, 0) = RefDistributed(transactions, u)
              /\ GetOr(receipts, u, 0) = RefReceived(transactions, u)
              /\ GetOr(balance, u, 0) =
                     RefDistributed(transactions, u) - RefReceived(transactions, u)
        /\ \A p \in Orderings(Len(transactions)) :
              LET st == AnalyzeAll([i \in 1..Len(transactions) |-> transactions[p[i]]])
              IN /\ SameDict(st.distributions, distributions)
                 /\ SameDict(st.receipts, receipts)
                 /\ SameDict(st.balance, balance)

\* the example of the specification: [(A->B,100),(B->C,50)]
C8_Witness ==
    /\ script = "local" /\ pc = "report"
    /\ transactions = << Row("A", "B", 100, Recent, S_faucet, 1),
                         Row("B", "C", 50, Recent, S_faucet, 1) >>
    /\ distributions = << <<"A", 100>>, <<"B", 50>> >>
    /\ receipts = << <<"B", 100>>, <<"C", 50>> >>
    /\ balance = << <<"A", 100>>, <<"B", 0 - 50>>, <<"C", 0 - 50>> >>

\* the reader of the run has returned to its caller
ReaderReturned == pc \in {"analyze", "report", "done"}

\* C9: for both readers of faucet_stats.py, no connection is open once the
\* reader has returned, whether the query succeeded or failed, nor when the run
\* has ended; a run opens at most one connection, and none when the database
\* file is missing.
C9_ConnectionsClosed ==
    script \in {"local", "lookup"} =>
        /\ (ReaderReturned \/ pc = "crashed") => conns = 0
        /\ conns <= 1 /\ opened <= 1
        /\ dbState = "missing" => opened = 0

C9_Witness ==
    /\ script = "local" /\ pc = "analyze"
    /\ dbState = "badquery"
    /\ opened = 1 /\ conns = 0

\* the total of key k grows by a from dict d to dict e, and no other total changes
Increased(d, e, k, a) ==
    /\ GetOr(e, k, 0) = GetOr(d, k, 0) + a
    /\ \A j \in (Keys(d) \cup Keys(e)) \ {k} : HasKey(d, j) /\ HasKey(e, j) /\ GetOr(e, j, 0) = GetOr(d, j, 0)

\* the aggregator of the local script handles the record at idx in this step
LocalRecordStep == script = "local" /\ pc = "analyze" /\ idx' = idx + 1

\* the aggregator of the remote script handles the payment at idx, pidx in this step
RemotePaymentStep == script = "remote" /\ pc = "analyze" /\ pidx' = pidx + 1

CurrentPayment == GetOr(all_transactions, all_wallets[idx][1], <<>>)[pidx]

\* the Telegram user a wallet of the pool belongs to
OwnerOf(wallet_id) ==
    CASE wallet_id = "w1" -> <<"b">>
      [] wallet_id = "w2" -> <<"b">>
      [] wallet_id = "w3" -> <<"c">>

CurrentOwner == OwnerOf(all_wallets[idx][1])

LocalBothOrNeither ==
    LET tx == transactions[idx]
    IN \/ /\ Increased(distributions, distributions', tx.sender, tx.amount)
          /\ Increased(receipts, receipts', tx.recipient, tx.amount)
       \/ /\ distributions' = distributions
          /\ receipts' = receipts

RemoteBothOrNeither ==
    \/ /\ Increased(distributions, distributions', CurrentOwner, CurrentPayment.amount)
       /\ Increased(receipts, receipts', CurrentOwner, CurrentPayment.amount)
    \/ /\ distributions' = distributions
       /\ receipts' = receipts

RemoteOneOrNeither ==
    \/ /\ Increased(distributions, distributions', CurrentOwner, CurrentPayment.amount)
       /\ receipts' = receipts
    \/ /\ distributions' = distributions
       /\ Increased(receipts, receipts', CurrentOwner, CurrentPayment.amount)
    \/ /\ distributions' = distributions
       /\ receipts' = receipts

\* C3 as stated: in both scripts every record the aggregator handles either
\* increases both the distributed and the received total by its amount or
\* changes neither dict.
C3_BothOrNeither ==
    [][ /\ LocalRecordStep => LocalBothOrNeither
        /\ RemotePaymentStep => RemoteBothOrNeither ]_vars

\* C3: every record the local aggregator handles either increases both the
\* sender's distributed total and the recipient's received total by its amount
\* or changes neither dict; every payment the remote aggregator handles
\* increases exactly one of the owner's two totals by its amount, or none.
C3_LocalBothRemoteOne ==
    [][ /\ LocalRecordStep => LocalBothOrNeither
        /\ RemotePaymentStep => RemoteOneOrNeither ]_vars

C3_Witness ==
    /\ script = "local" /\ pc = "analyze" /\ idx = 2
    /\ transactions[1].sender # transactions[1].recipient
    /\ distributions = << <<transactions[1].sender, transactions[1].amount>> >>
    /\ receipts = << <<transactions[1].recipient, transactions[1].amount>> >>

\* the memo of the payment contains "faucet" in any letter case
IsFaucetMemo(payment) ==
    /\ "memo" \in payment.keys
    /\ \E i \in 1..(Len(payment.memo) - 5) :
          \A j \in 1..6 : Lower(<<payment.memo[i + j - 1]>>) = <<S_faucet[j]>>

\* C10: a payment the remote aggregator handles changes the totals only if its
\* memo contains "faucet" in any letter case and its time is at most 365 days
\* before the run; then its amount is added to the wallet owner's distributed
\* total when its out flag is true and to the owner's received total otherwise,
\* and nothing else changes; any other payment changes nothing.
C10_PaymentEffect ==
    [][ RemotePaymentStep =>
          LET payment == CurrentPayment
          IN IF IsFaucetMemo(payment) /\ payment.time >= Now - 365 * 86400
             THEN IF "out" \in payment.keys /\ payment.out
                  THEN /\ Increased(distributions, distributions', CurrentOwner, payment.amount)
                       /\ receipts' = receipts
                  ELSE /\ Increased(receipts, receipts', CurrentOwner, payment.amount)
                       /\ distributions' = distributions
             ELSE /\ distributions' = distributions
                  /\ receipts' = receipts ]_vars

\* two wallets of @b, one outgoing faucet payment each, both handled
C10_Witness ==
    /\ script = "remote" /\ pc = "analyze"
    /\ Len(all_wallets) = 2 /\ idx = 2 /\ pidx = 2
    /\ OwnerOf(all_wallets[1][1]) = <<"b">> /\ OwnerOf(all_wallets[2][1]) = <<"b">>
    /\ Len(GetOr(all_transactions, all_wallets[1][1], <<>>)) = 1
    /\ distributions = << << <<"b">>, 2000 >> >>
    /\ receipts = <<>>

----------------------------------------------------------------------------
(* Properties of the readers and of the run as a whole *)

\* C4 as stated: a reader that met an access failure returned the empty list
\* and did not raise.
C4_ReadersSwallow ==
    lastCall.failure # "none" => (~lastCall.raised /\ lastCall.ret = <<>>)

\* the run is a run of one of the two scripts
ScriptRun == script \in {"local", "remote"}

IsReport(e) == e.kind = "report"

Reports == SelectSeq(out, IsReport)

ExpectedReports == IF script = "local" THEN 3 ELSE 2

\* C5 as stated: however the data access went, the run has printed all its
\* reports when it ends.
C5_AlwaysReports ==
    (ScriptRun /\ pc \in {"done", "crashed"}) => Len(Reports) = ExpectedReports

\* the report of dict stats: the header, one line per key, amounts ordered by Ordered
ReportFor(lines, stats, title, Ordered(_, _)) ==
    /\ Len(lines) = 1 + Len(stats)
    /\ lines[1].kind = "header" /\ lines[1].title = title
    /\ \A i \in 2..Len(lines) : lines[i].kind = "entry"
    /\ {lines[i].username : i \in 2..Len(lines)} = Keys(stats)
    /\ \A i \in 2..(Len(lines) - 1) : Ordered(lines[i].sats, lines[i + 1].sats)

Greater(a, b) == a > b

GreaterOrEqual(a, b) == a >= b

ReportsAre(Ordered(_, _)) ==
    IF script = "local"
    THEN /\ Len(Reports) = 3
         /\ ReportFor(Reports[1].lines, distributions, T_LocalDistributed, Ordered)
         /\ ReportFor(Reports[2].lines, receipts, T_LocalReceived, Ordered)
         /\ ReportFor(Reports[3].lines, balance, T_LocalBalance, Ordered)
    ELSE /\ Len(Reports) = 2
         /\ ReportFor(Reports[1].lines, distributions, T_RemoteDistributed, Ordered)
         /\ ReportFor(Reports[2].lines, receipts, T_RemoteReceived, Ordered)

\* C6 as stated: every report is its header and one line per key, and each
\* line's amount is strictly greater than the next line's.
C6_StrictlyDescending ==
    (pc = "done" /\ Reports # <<>>) => ReportsAre(Greater)

\* C6: every report is its header and one line per key, and each line's amount
\* is greater than or equal to the next line's.
C6_Descending ==
    (pc = "done" /\ Reports # <<>>) => ReportsAre(GreaterOrEqual)

\* the dict order is ascending, so the report has to reorder the lines
C6_Witness ==
    /\ script = "local" /\ pc = "done"
    /\ Len(receipts) = 2 /\ receipts[1][2] < receipts[2][2]
    /\ Reports[2].lines[2].username = receipts[2][1]
    /\ Reports[2].lines[3].username = receipts[1][1]

\* the readers brought no record at all
ObtainedNothing ==
    IF script = "local" THEN transactions = <<>>
    ELSE \A i \in 1..Len(all_transactions) : all_transactions[i][2] = <<>>

HeaderOnly ==
    /\ Len(Reports) = ExpectedReports
    /\ \A i \in 1..Len(Reports) :
          Len(Reports[i].lines) = 1 /\ Reports[i].lines[1].kind = "header"

\* C7 as stated: a run that obtained no record ends with all its reports
\* printed, each its header line only.
C7_EmptyYieldsHeaders ==
    (ScriptRun /\ pc = "done" /\ ObtainedNothing) => HeaderOnly

\* C7: a run that obtained no record ends with all its reports printed, each
\* its header line only, except that the remote script with an empty user list
\* prints "No users found!" and no report.
C7_EmptyReports ==
    (ScriptRun /\ pc = "done" /\ ObtainedNothing) =>
        IF script = "remote" /\ users = <<>>
        THEN Reports = <<>> /\ out[Len(out)] = Msg("No users found!")
        ELSE HeaderOnly

\* users and wallets, but no payment
C7_Witness ==
    /\ script = "remote" /\ pc = "done"
    /\ users # <<>> /\ all_wallets # <<>>
    /\ ObtainedNothing
    /\ HeaderOnly

====
